---- MODULE Spec2Model ----
(***************************************************************************)
(* Model of src/test/slurm/test_job_dependencies.py: a chain of three      *)
(* SLURM jobs (dep_test_1 -> dep_test_2 -> dep_test_3) is submitted with   *)
(* sbatch, polled with squeue/sacct under a 300 s deadline, and its output *)
(* files are verified.  The scheduler is the environment: every command    *)
(* result is a nondeterministic choice among the results run_command can   *)
(* return.                                                                 *)
(*                                                                         *)
(* Text is modelled as it is used: a command output is a sequence of       *)
(* lines, a line a sequence of whitespace-separated words; a file content  *)
(* is a sequence of segments, and "x in text" is the infix test on them.   *)
(***************************************************************************)
EXTENDS Integers, Sequences, FiniteSets, TLC

VARIABLES
    adapter,        \* "cluster": any scheduler; "fake": the scripted test double
    pc,             \* position of the single control thread
    script,         \* job1_script, job2_script, job3_script (current text)
    file,           \* /tmp/job1.sh .. /tmp/job3.sh as last written
    success,        \* run_command result: returncode == 0
    output,         \* run_command result: stdout, stripped
    job_id,         \* job1_id, job2_id, job3_id (None until parsed)
    sbatchCalls,    \* the sbatch calls the scheduler has received, in order
    nextJobId,      \* scheduler side: smallest id not yet handed out
    elapsed,        \* time.time() - start_time at the last reading
    idx,            \* position of the for loop over job_ids
    all_completed,  \* wait_for_jobs local
    completed_jobs, \* wait_for_jobs local
    failed_jobs,    \* wait_for_jobs local
    lastTerminal,   \* history: last terminal state the poller recorded per job
    loop_exit,      \* history: how the while loop was left
    fs,             \* the artifact files as verify_results found them
    verdicts,       \* what each call of verify_results ended with
    opened,         \* the artifact files verify_results has opened, in order
    log,            \* the error lines and the file listing printed so far
    exit_code,      \* sys.exit(main()) status, -1 while the program runs
    \* the MPI programs (test_mpi.py, test_mpi_scaling.py)
    size,           \* comm.Get_size(), 0 when no MPI program runs
    buffered,       \* the MPI library completes a send or a rooted collective
                    \* locally, without waiting for the peer
    proc,           \* per rank: position and locals of the rank's process
    chan,           \* point-to-point messages sent and not yet received
    \* the multi-node suite (test_multi_node.py)
    test_idx,       \* position of "for test_name, test_func in tests"
    passed,         \* main's counter
    ran,            \* history: the tests that were called, in order
    suite_exit      \* sys.exit(main()) status, -1 while the suite runs

(* the variables of test_job_dependencies.py *)
depVars == <<adapter, pc, script, file, success, output, job_id, sbatchCalls,
             nextJobId, elapsed, idx, all_completed, completed_jobs, failed_jobs,
             lastTerminal, loop_exit, fs, verdicts, opened, log, exit_code>>

mpiVars == <<size, buffered, proc, chan>>

suiteVars == <<test_idx, passed, ran, suite_exit>>

vars == <<depVars, mpiVars, suiteVars>>

----------------------------------------------------------------------------
(* Program constants *)

max_wait_time == 300

SleepSecs == 5

CommandTimeout == 60

FirstJobId == 12345

(* Bound of the model: how many ids other users' jobs may take from the
   scheduler's counter while the chain is being submitted. *)
MaxIdGap == 0

None == "None"

Jobs == 1..3

(* job k+1 carries --dependency=afterok:<id of job k> *)
Deps(j) == IF j = 1 THEN {} ELSE {j - 1}

Marker(j) == IF j = 1 THEN "$JOB1_ID" ELSE IF j = 2 THEN "$JOB2_ID" ELSE "$JOB3_ID"

Markers == {Marker(j) : j \in Jobs}

(* The three script templates, reduced to the words that matter. *)
Template(j) ==
    IF j = 1 THEN <<"--job-name=dep_test_1", "echo", "test_data_123">>
    ELSE IF j = 2 THEN <<"--job-name=dep_test_2", "--dependency=afterok:", "$JOB1_ID",
                         "echo", "processed_", "$data">>
    ELSE <<"--job-name=dep_test_3", "--dependency=afterok:", "$JOB2_ID",
           "echo", "analysis_complete">>

----------------------------------------------------------------------------
(* Pure helpers *)

RECURSIVE Flatten(_)
Flatten(lines) == IF lines = <<>> THEN <<>> ELSE Head(lines) \o Flatten(Tail(lines))

(* str.split(): all whitespace-separated words of the output *)
Split(out) == Flatten(out)

ParseFirstWord(out) == Split(out)[1]

(* output.split()[-1]; the caller checks Split(out) # <<>> (else IndexError) *)
ParseJobId(out) == Split(out)[Len(Split(out))]

(* str.replace(marker, value) *)
Render(body, marker, value) ==
    [k \in 1..Len(body) |-> IF body[k] = marker THEN value ELSE body[k]]

(* needle in hay, both sequences of segments *)
IsInfix(needle, hay) ==
    \E s \in 0..(Len(hay) - Len(needle)) :
        \A k \in 1..Len(needle) : hay[s + k] = needle[k]

IdToken(n) == ToString(n)

----------------------------------------------------------------------------
(* no MPI program runs *)
MpiIdle ==
    /\ size = 0
    /\ buffered = FALSE
    /\ proc = <<>>
    /\ chan = <<>>

(* the multi-node suite does not run *)
SuiteIdle ==
    /\ test_idx = 0
    /\ passed = 0
    /\ ran = <<>>
    /\ suite_exit = -1

Init ==
    /\ MpiIdle
    /\ SuiteIdle
    /\ adapter \in {"cluster", "fake"}
    /\ pc = "submit"
    /\ idx = 1
    /\ script = [j \in Jobs |-> Template(j)]
    /\ file = [j \in Jobs |-> <<>>]
    /\ success = FALSE
    /\ output = <<>>
    /\ job_id = [j \in Jobs |-> None]
    /\ sbatchCalls = <<>>
    /\ nextJobId = FirstJobId
    /\ elapsed = 0
    /\ all_completed = FALSE
    /\ completed_jobs = <<>>
    /\ failed_jobs = <<>>
    /\ lastTerminal = [j \in Jobs |-> "none"]
    /\ loop_exit = "none"
    /\ fs = [k \in 1..3 |-> [state |-> "unread", content |-> <<>>]]
    /\ verdicts = <<>>
    /\ opened = <<>>
    /\ log = {}
    /\ exit_code = -1

----------------------------------------------------------------------------
(* The scheduler as seen through run_command *)

(* The fake adapter keeps job j in the queue for FakeQueuedTicks[j] poll
   ticks and reports it COMPLETED from then on. *)
FakeQueuedTicks == <<1, 1, 2>>

(* In fake mode commands take no time, so the tick number is a function of
   the clock. *)
FakeTick == (elapsed \div SleepSecs) + 1

SubmittedLine(n) == << <<"Submitted", "batch", "job", IdToken(n)>> >>

AcceptedCalls == Cardinality({k \in 1..Len(sbatchCalls) : sbatchCalls[k].accepted})

(* run_command("sbatch /tmp/jobN.sh"): refused; accepted with the usual
   line; accepted with nothing on stdout. id = 0 means no job was created. *)
SbatchResults ==
    IF adapter = "fake"
    THEN {[success |-> TRUE, output |-> SubmittedLine(nextJobId), id |-> nextJobId]}
    ELSE {[success |-> FALSE, output |-> <<>>, id |-> 0]}
         \cup {[success |-> TRUE, output |-> SubmittedLine(n), id |-> n] :
                 n \in nextJobId..(FirstJobId + AcceptedCalls + MaxIdGap)}
         \cup {[success |-> TRUE, output |-> <<>>, id |-> nextJobId]}

(* run_command("squeue -h -j <id>"): one row while the job is in the live
   queue, nothing otherwise (also when squeue no longer knows the id). *)
SqueueResults(j) ==
    IF adapter = "fake"
    THEN IF FakeTick <= FakeQueuedTicks[j]
         THEN {[success |-> TRUE, output |-> << <<job_id[j], "R">> >>]}
         ELSE {[success |-> TRUE, output |-> <<>>]}
    ELSE {[success |-> TRUE, output |-> << <<job_id[j], "R">> >>],
          [success |-> TRUE, output |-> <<>>],
          [success |-> FALSE, output |-> <<>>]}

(* run_command("sacct -j <id> --format=State --noheader --parsable2"): one
   line per job record and step, first the job's own state. *)
SacctResults(j) ==
    IF adapter = "fake"
    THEN {[success |-> TRUE, output |-> << <<"COMPLETED">> >>]}
    ELSE {[success |-> FALSE, output |-> <<>>],
          [success |-> TRUE, output |-> <<>>],
          [success |-> TRUE, output |-> << <<"COMPLETED">> >>],
          [success |-> TRUE, output |-> << <<"FAILED">> >>],
          [success |-> TRUE, output |-> << <<"CANCELLED", "by", "1000">> >>],
          [success |-> TRUE, output |-> << <<"RUNNING">>, <<"COMPLETED">> >>]}

(* Wall-clock time one pass of the while loop takes: the sleep, plus a
   command that ran into run_command's timeout. *)
TickDurations ==
    IF adapter = "fake" THEN {SleepSecs} ELSE {SleepSecs, SleepSecs + CommandTimeout}

----------------------------------------------------------------------------
(* submit_dependent_jobs *)

ContinueAfterReject(j) == IF j < 3 THEN "submit" ELSE "main_check"

(* "if not success: ... return ..." : where control goes when sbatch for job
   j is refused *)
AfterReject(j) == "main_check"

Crash ==
    /\ pc' = "crashed"
    /\ exit_code' = 1
    /\ log' = log \cup {<<"Traceback", 0>>}

SameJobAgain(j) == j

(* the block that follows the one of job j *)
NextToSubmit(j) == j + 1

(* One submission block: write /tmp/jobN.sh, run sbatch, parse the id and
   render the next script with it. *)
SubmitJob ==
    /\ pc = "submit"
    /\ \E r \in SbatchResults :
        LET j == idx IN
        /\ file' = [file EXCEPT ![j] = script[j]]
        /\ success' = r.success
        /\ output' = r.output
        /\ sbatchCalls' = Append(sbatchCalls,
                                 [job |-> j, body |-> script[j], accepted |-> r.success,
                                  stdout |-> r.output,
                                  id |-> IF r.id = 0 THEN None ELSE IdToken(r.id)])
        /\ nextJobId' = IF r.id = 0 THEN nextJobId ELSE r.id + 1
        /\ IF ~r.success
           THEN /\ log' = log \cup {<<"Failed to submit Job", j>>}
                /\ pc' = AfterReject(j)
                /\ idx' = IF pc' = "submit" THEN j + 1 ELSE idx
                /\ UNCHANGED <<job_id, script, exit_code>>
           ELSE IF Split(r.output) = <<>>
           THEN /\ Crash
                /\ UNCHANGED <<job_id, script, idx>>
           ELSE /\ job_id' = [job_id EXCEPT ![j] = ParseJobId(r.output)]
                /\ script' = IF j < 3
                             THEN [script EXCEPT ![j + 1] =
                                       Render(script[j + 1], Marker(j), job_id'[j])]
                             ELSE script
                /\ pc' = IF j < 3 THEN "submit" ELSE "main_check"
                /\ idx' = IF j < 3 THEN NextToSubmit(j) ELSE idx
                /\ UNCHANGED <<log, exit_code>>
    /\ UNCHANGED <<mpiVars, suiteVars, opened, verdicts, adapter, elapsed, all_completed, completed_jobs, failed_jobs,
                   lastTerminal, loop_exit, fs>>

(* main: "if not all([job1_id, job2_id, job3_id])", then wait_for_jobs sets
   start_time *)
MainAfterSubmit ==
    /\ pc = "main_check"
    /\ IF \E j \in Jobs : job_id[j] = None
       THEN /\ log' = log \cup {<<"Failed to submit all dependent jobs", 0>>}
            /\ exit_code' = 1
            /\ pc' = "exit"
            /\ UNCHANGED <<elapsed, idx>>
       ELSE /\ pc' = "loop_check"
            /\ elapsed' = 0
            /\ idx' = 1
            /\ UNCHANGED <<log, exit_code>>
    /\ UNCHANGED <<mpiVars, suiteVars, opened, verdicts, adapter, script, file, success, output, job_id, sbatchCalls,
                   nextJobId, all_completed, completed_jobs, failed_jobs,
                   lastTerminal, loop_exit, fs>>

----------------------------------------------------------------------------
(* wait_for_jobs *)

LoopConditionInclusive(t) == t <= max_wait_time

(* while time.time() - start_time < max_wait_time *)
LoopCondition(t) == t < max_wait_time

ClassifyAnyLine(ok, out) ==
    IF \E k \in 1..Len(out) : IsInfix(<<"COMPLETED">>, out[k]) THEN "completed" ELSE "other"

ClassifyUnknownAsFailed(ok, out) ==
    IF ok /\ out # <<>> /\ IsInfix(<<"COMPLETED">>, out[1]) THEN "completed" ELSE "failed"

(* What the sacct answer makes of a job that squeue no longer lists:
   "if success and output.strip()", state = first line, then the three
   substring tests *)
Classify(ok, out) ==
    IF ok /\ out # <<>>
    THEN LET state == out[1] IN
         IF IsInfix(<<"COMPLETED">>, state) THEN "completed"
         ELSE IF IsInfix(<<"FAILED">>, state) \/ IsInfix(<<"CANCELLED">>, state)
              THEN "failed"
              ELSE "other"
    ELSE "other"

KeepLists(l) == l

(* "completed_jobs = []" and "failed_jobs = []" at the top of every pass *)
NewTickList(l) == <<>>

(* the while test, and the three assignments that open a pass *)
LoopCheck ==
    /\ pc = "loop_check"
    /\ IF LoopCondition(elapsed)
       THEN /\ all_completed' = TRUE
            /\ completed_jobs' = NewTickList(completed_jobs)
            /\ failed_jobs' = NewTickList(failed_jobs)
            /\ idx' = 1
            /\ pc' = "squeue"
            /\ UNCHANGED loop_exit
       ELSE /\ loop_exit' = "deadline"
            /\ pc' = "return"
            /\ UNCHANGED <<all_completed, completed_jobs, failed_jobs, idx>>
    /\ UNCHANGED <<mpiVars, suiteVars, opened, verdicts, adapter, script, file, success, output, job_id, sbatchCalls,
                   nextJobId, elapsed, lastTerminal, fs, log, exit_code>>

(* end of one iteration of "for job_id in job_ids" *)
NextJob ==
    /\ idx' = IF idx < 3 THEN idx + 1 ELSE idx
    /\ pc' = IF idx < 3 THEN "squeue" ELSE "tick_end"

(* "if output.strip()" after squeue: the job is still in the queue *)
InQueue(out) == out # <<>>

PollSqueue ==
    /\ pc = "squeue"
    /\ \E r \in SqueueResults(idx) :
        /\ success' = r.success
        /\ output' = r.output
        /\ IF InQueue(r.output)
           THEN all_completed' = FALSE /\ NextJob
           ELSE pc' = "sacct" /\ UNCHANGED <<all_completed, idx>>
    /\ UNCHANGED <<mpiVars, suiteVars, opened, verdicts, adapter, script, file, job_id, sbatchCalls, nextJobId, elapsed,
                   completed_jobs, failed_jobs, lastTerminal, loop_exit, fs, log,
                   exit_code>>

PollSacct ==
    /\ pc = "sacct"
    /\ \E r \in SacctResults(idx) :
        LET verdict == Classify(r.success, r.output) IN
        /\ success' = r.success
        /\ output' = r.output
        /\ completed_jobs' = IF verdict = "completed"
                             THEN Append(completed_jobs, job_id[idx])
                             ELSE completed_jobs
        /\ failed_jobs' = IF verdict = "failed"
                          THEN Append(failed_jobs, job_id[idx])
                          ELSE failed_jobs
        /\ all_completed' = IF verdict = "other" THEN FALSE ELSE all_completed
        /\ lastTerminal' = IF verdict = "completed"
                           THEN [lastTerminal EXCEPT ![idx] = "Succeeded"]
                           ELSE IF verdict = "failed"
                           THEN [lastTerminal EXCEPT ![idx] = "Failed"]
                           ELSE lastTerminal
    /\ NextJob
    /\ UNCHANGED <<mpiVars, suiteVars, opened, verdicts, adapter, script, file, job_id, sbatchCalls, nextJobId, elapsed,
                   loop_exit, fs, log, exit_code>>

(* "if all_completed: break", else print, sleep 5 and read the clock again *)
TickEnd ==
    /\ pc = "tick_end"
    /\ IF all_completed
       THEN /\ loop_exit' = "break"
            /\ pc' = "return"
            /\ UNCHANGED elapsed
       ELSE /\ \E d \in TickDurations : elapsed' = elapsed + d
            /\ pc' = "loop_check"
            /\ UNCHANGED loop_exit
    /\ UNCHANGED <<mpiVars, suiteVars, opened, verdicts, adapter, script, file, success, output, job_id, sbatchCalls,
                   nextJobId, idx, all_completed, completed_jobs, failed_jobs,
                   lastTerminal, fs, log, exit_code>>

----------------------------------------------------------------------------
(* main, after wait_for_jobs *)

OnlyFailedCounts(completed, failed) == failed # <<>>

(* main: "if len(completed) != 3 or failed" *)
NotAllSucceeded(completed, failed) == Len(completed) # 3 \/ failed # <<>>

(* "return completed_jobs, failed_jobs", then main's
   "if len(completed) != 3 or failed: return 1".  The locals of
   wait_for_jobs other than the two returned lists end here. *)
Report ==
    /\ pc = "return"
    /\ IF NotAllSucceeded(completed_jobs, failed_jobs)
       THEN /\ log' = log \cup {<<"Not all jobs completed successfully", 0>>}
            /\ exit_code' = 1
            /\ pc' = "exit"
       ELSE /\ pc' = "verify"
            /\ UNCHANGED <<log, exit_code>>
    /\ elapsed' = 0
    /\ idx' = 1
    /\ all_completed' = FALSE
    /\ success' = FALSE
    /\ output' = <<>>
    /\ UNCHANGED <<mpiVars, suiteVars, opened, verdicts, adapter, script, file, job_id, sbatchCalls, nextJobId,
                   completed_jobs, failed_jobs, lastTerminal, loop_exit, fs>>

----------------------------------------------------------------------------
(* verify_results *)

(* expected_files, in order: /tmp/dep_test_data.txt,
   /tmp/dep_test_processed.txt, /tmp/dep_test_final.txt *)
Artifacts == 1..3

NeedleOfNextFile(k) ==
    IF k = 1 THEN <<"processed_", "test_data_123">>
    ELSE IF k = 2 THEN <<"processed_", "test_data_123">>
    ELSE <<"analysis_complete">>

(* the substring each file must contain *)
Needle(k) ==
    IF k = 1 THEN <<"test_data_123">>
    ELSE IF k = 2 THEN <<"processed_", "test_data_123">>
    ELSE <<"analysis_complete">>

(* What a path can hold when the verifier looks at it. *)
FileStates ==
    {[state |-> "missing", content |-> <<>>],
     [state |-> "unreadable", content |-> <<>>],
     [state |-> "ok", content |-> <<"test_data_123">>],
     [state |-> "ok", content |-> <<"processed_", "test_data_123">>],
     [state |-> "ok", content |-> <<"Final result: ", "analysis_complete">>],
     [state |-> "ok", content |-> <<"unrelated">>]}

VerifyExistenceOnly(f) ==
    LET bad == {k \in Artifacts : f[k].state # "ok"} IN
    IF bad # {}
    THEN LET k == CHOOSE m \in bad : \A n \in bad : m <= n IN
         IF f[k].state = "missing" THEN "failed" ELSE "crash"
    ELSE "passed"

(* The first loop stops at the first path that does not exist (return
   False) or that open() cannot read (the exception is not caught there);
   the content tests follow only when all three were read. *)
VerifyOutcome(f) ==
    LET bad == {k \in Artifacts : f[k].state # "ok"} IN
    IF bad # {}
    THEN LET k == CHOOSE m \in bad : \A n \in bad : m <= n IN
         IF f[k].state = "missing" THEN "failed" ELSE "crash"
    ELSE IF \A k \in Artifacts : IsInfix(Needle(k), f[k].content)
         THEN "passed"
         ELSE "failed"

(* What verify_results prints about the single files: the listing line of
   every file the first loop read, the "missing" line of the file it stopped
   at, and the "content incorrect" line of the first content test that
   failed. *)
VerifyLines(f) ==
    LET bad == {k \in Artifacts : f[k].state # "ok"}
        wrong == {k \in Artifacts : ~IsInfix(Needle(k), f[k].content)}
    IN  IF bad # {}
        THEN LET k == CHOOSE m \in bad : \A n \in bad : m <= n IN
             {<<"listed", m>> : m \in 1..(k - 1)}
                 \cup (IF f[k].state = "missing" THEN {<<"missing", k>>} ELSE {})
        ELSE {<<"listed", m>> : m \in Artifacts}
                 \cup (IF wrong # {}
                       THEN {<<"content incorrect",
                               CHOOSE m \in wrong : \A n \in wrong : m <= n>>}
                       ELSE {})

FsTruncated(f) == [k \in Artifacts |-> [state |-> f[k].state, content |-> <<>>]]

(* The files after verify_results: every open() is open(path, 'r') *)
FsAfterVerify(f) == f

OpenOrderBackwards(f) ==
    LET bad == {k \in Artifacts : f[k].state # "ok"} IN
    IF bad # {} THEN <<>> ELSE <<3, 2, 1, 3, 2, 1>>

(* The paths verify_results opens, in order: the existence loop opens the
   files one after the other up to the first that is missing (not opened) or
   unreadable (the open fails); when all three were read, the content tests
   open them again, one after the other up to the first that fails. *)
OpenOrder(f) ==
    LET bad == {k \in Artifacts : f[k].state # "ok"}
        wrong == {k \in Artifacts : ~IsInfix(Needle(k), f[k].content)}
    IN  IF bad # {}
        THEN LET k == CHOOSE m \in bad : \A n \in bad : m <= n IN
             [m \in 1..(IF f[k].state = "missing" THEN k - 1 ELSE k) |-> m]
        ELSE [m \in 1..3 |-> m]
                 \o [m \in 1..(IF wrong = {} THEN 3
                                ELSE CHOOSE m \in wrong : \A n \in wrong : m <= n) |-> m]

(* the body of verify_results on the files f, and what main makes of its
   return value *)
RunVerify(f) ==
    /\ fs' = FsAfterVerify(f)
    /\ opened' = opened \o OpenOrder(f)
    /\ verdicts' = Append(verdicts, VerifyOutcome(f))
    /\ IF VerifyOutcome(f) = "crash"
       THEN /\ log' = log \cup VerifyLines(f) \cup {<<"Traceback", 0>>}
            /\ exit_code' = 1
            /\ pc' = "crashed"
       ELSE IF VerifyOutcome(f) = "failed"
       THEN /\ log' = log \cup VerifyLines(f)
                          \cup {<<"Job results verification failed", 0>>}
            /\ exit_code' = 1
            /\ pc' = "exit"
       ELSE /\ log' = log \cup VerifyLines(f)
            /\ exit_code' = 0
            /\ pc' = "exit"

(* verify_results() and main's "if not verify_results(): return 1", else
   return 0 *)
VerifyResults ==
    /\ pc = "verify"
    /\ \E f \in [Artifacts -> FileStates] : RunVerify(f)
    /\ UNCHANGED <<mpiVars, suiteVars, adapter, script, file, success, output, job_id, sbatchCalls,
                   nextJobId, elapsed, idx, all_completed, completed_jobs,
                   failed_jobs, lastTerminal, loop_exit>>

----------------------------------------------------------------------------
Next ==
    \/ SubmitJob
    \/ MainAfterSubmit
    \/ LoopCheck
    \/ PollSqueue
    \/ PollSacct
    \/ TickEnd
    \/ Report
    \/ VerifyResults

Spec == Init /\ [][Next]_vars

(* One control thread that runs every statement to its end: each command is
   cut off after CommandTimeout seconds and the sleep returns. *)
LiveSpec == Spec /\ WF_vars(Next)

----------------------------------------------------------------------------
(* The program under an external stop request.  The script installs no
   signal handler and catches no KeyboardInterrupt (run_command's
   "except Exception" does not cover it), so a SIGINT ends it wherever it
   is, in a subprocess call or in the sleep. *)

(* the job ids the script has passed to scancel: it runs no command but
   sbatch, squeue and sacct *)
ScancelCalls == {}

(* the exit status of a Python process ended by KeyboardInterrupt depends on
   the interpreter version *)
InterruptStatus == {1, 130}

Interrupt ==
    /\ pc \notin {"exit", "crashed", "interrupted"}
    /\ pc' = "interrupted"
    /\ exit_code' \in InterruptStatus
    /\ log' = log \cup {<<"KeyboardInterrupt", 0>>}
    /\ UNCHANGED <<mpiVars, suiteVars, opened, verdicts, adapter, script, file, success, output, job_id, sbatchCalls,
                   nextJobId, elapsed, idx, all_completed, completed_jobs,
                   failed_jobs, lastTerminal, loop_exit, fs>>

NextCancellable ==
    \/ Next
    \/ Interrupt

CancelSpec == Init /\ [][NextCancellable]_vars

----------------------------------------------------------------------------
(* verify_results on its own: the three files lie on disk from the start (fs
   holds them as they are) and the function is called on them again and
   again, in a run whose three jobs were all reported COMPLETED. *)

(* Bound of the model: how many times verify_results is called. *)
MaxVerifyRuns == 2

ChainId(j) == IdToken(FirstJobId + j - 1)

ChainScript(j) == IF j = 1 THEN Template(1) ELSE Render(Template(j), Marker(j - 1), ChainId(j - 1))

InitVerify ==
    /\ MpiIdle
    /\ SuiteIdle
    /\ adapter = "cluster"
    /\ pc = "verify"
    /\ idx = 1
    /\ script = [j \in Jobs |-> ChainScript(j)]
    /\ file = [j \in Jobs |-> ChainScript(j)]
    /\ success = FALSE
    /\ output = <<>>
    /\ job_id = [j \in Jobs |-> ChainId(j)]
    /\ sbatchCalls = [j \in Jobs |->
                         [job |-> j, body |-> ChainScript(j), accepted |-> TRUE,
                          stdout |-> SubmittedLine(FirstJobId + j - 1),
                          id |-> ChainId(j)]]
    /\ nextJobId = FirstJobId + 3
    /\ elapsed = 0
    /\ all_completed = FALSE
    /\ completed_jobs = [j \in Jobs |-> ChainId(j)]
    /\ failed_jobs = <<>>
    /\ lastTerminal = [j \in Jobs |-> "Succeeded"]
    /\ loop_exit = "break"
    /\ fs \in [Artifacts -> FileStates]
    /\ verdicts = <<>>
    /\ opened = <<>>
    /\ log = {}
    /\ exit_code = -1

(* one more call of verify_results() on the files as they are now *)
VerifyOnDisk ==
    /\ Len(verdicts) < MaxVerifyRuns
    /\ RunVerify(fs)
    /\ UNCHANGED <<mpiVars, suiteVars, adapter, script, file, success, output, job_id, sbatchCalls,
                   nextJobId, elapsed, idx, all_completed, completed_jobs,
                   failed_jobs, lastTerminal, loop_exit>>

NextVerify == VerifyOnDisk

VerifySpec == InitVerify /\ [][NextVerify]_vars

----------------------------------------------------------------------------
(* The MPI library as the two MPI programs use it.  A blocking receive
   returns when a message with its source and tag has arrived.  A
   standard-mode send may return once the message is buffered or only once
   it has been received: which, is the library's choice (buffered).  A
   collective is left once every rank of the communicator has entered the
   same collective; the root of a Bcast and the non-roots of a gather may
   leave before that when the library buffers. *)

(* the job dependency test does not run *)
DepIdle ==
    /\ adapter = "cluster"
    /\ pc = "off"
    /\ idx = 1
    /\ script = [j \in Jobs |-> Template(j)]
    /\ file = [j \in Jobs |-> <<>>]
    /\ success = FALSE
    /\ output = <<>>
    /\ job_id = [j \in Jobs |-> None]
    /\ sbatchCalls = <<>>
    /\ nextJobId = FirstJobId
    /\ elapsed = 0
    /\ all_completed = FALSE
    /\ completed_jobs = <<>>
    /\ failed_jobs = <<>>
    /\ lastTerminal = [j \in Jobs |-> "none"]
    /\ loop_exit = "none"
    /\ fs = [k \in 1..3 |-> [state |-> "unread", content |-> <<>>]]
    /\ verdicts = <<>>
    /\ opened = <<>>
    /\ log = {}
    /\ exit_code = -1

(* Bound of the model: the largest communicator size. *)
MaxRanks == 3

Ranks == 0..(size - 1)

(* every rank is a process of its own *)
RankIds == 0..(MaxRanks - 1)

(* a rank's process before its first statement *)
StartOfRank(first) ==
    [pc |-> first, i |-> 1, round_num |-> 0, is_correct |-> TRUE,
     colls |-> <<>>, ret |-> "none", sends |-> 0, recvs |-> 0]

(* a step of a rank leaves the communicator and the other programs alone *)
MpiFrame == UNCHANGED <<depVars, suiteVars, size, buffered>>

(* the process p after it has called the collective kind, contributing val *)
Entering(p, kind, val, wait) ==
    [p EXCEPT !.colls = Append(@, [kind |-> kind, val |-> val]), !.pc = wait]

(* the collective rank r is in *)
Current(r) == proc[r].colls[Len(proc[r].colls)]

AllEntered(r) ==
    \A q \in Ranks :
        /\ Len(proc[q].colls) >= Len(proc[r].colls)
        /\ proc[q].colls[Len(proc[r].colls)].kind = Current(r).kind

CanLeave(r) ==
    \/ AllEntered(r)
    \/ buffered /\ Current(r).kind = "Bcast" /\ r = 0
    \/ buffered /\ Current(r).kind = "gather" /\ r # 0

(* op=MPI.MIN over the contributions to the collective rank r is in *)
ReducedMin(r) ==
    IF \E q \in Ranks : proc[q].colls[Len(proc[r].colls)].val = 0 THEN 0 ELSE 1

Message(src, dst, tag) == [src |-> src, dst |-> dst, tag |-> tag]

InFlight(src, dst, tag) == \E k \in 1..Len(chan) : chan[k] = Message(src, dst, tag)

(* chan without its first message src -> dst with this tag *)
Take(src, dst, tag) ==
    LET k == CHOOSE n \in 1..Len(chan) :
                 /\ chan[n] = Message(src, dst, tag)
                 /\ \A m \in 1..(n - 1) : chan[m] # Message(src, dst, tag)
    IN  SubSeq(chan, 1, k - 1) \o SubSeq(chan, k + 1, Len(chan))

(* comm.Send / comm.send by rank r: the message is on its way and the rank
   is inside the call *)
DoSend(r, dst, tag, wait) ==
    /\ chan' = Append(chan, Message(r, dst, tag))
    /\ proc' = [proc EXCEPT ![r].sends = @ + 1, ![r].pc = wait]

(* the send call of rank r returns: at once when the library buffers, else
   when the message has been received *)
SendReturns(r, dst, tag) == buffered \/ ~InFlight(r, dst, tag)

----------------------------------------------------------------------------
(* test_mpi_scaling.py: run_scaling_tests with benchmark_allreduce and
   benchmark_send_recv, one process per rank *)

num_rounds == 10

(* len(data_sizes) *)
NumDataSizes == 5

(* len(message_sizes) *)
NumMessageSizes == 4

InitScaling ==
    /\ DepIdle
    /\ SuiteIdle
    /\ size \in 1..MaxRanks
    /\ buffered \in BOOLEAN
    /\ proc = [r \in Ranks |-> StartOfRank("Bcast")]
    /\ chan = <<>>

Flag(b) == IF b THEN 1 ELSE 0

(* where a rank starts benchmark_send_recv: rank 0 sends, rank 1 receives,
   the loop body of every other rank is empty *)
P2PStart(r) == IF r = 0 THEN "Send" ELSE IF r = 1 THEN "echo_Recv" ELSE "round"

(* benchmark_allreduce: comm.Bcast(data, root=0) *)
EnterBcast(r) ==
    /\ r \in Ranks
    /\ MpiFrame
    /\ proc[r].pc = "Bcast"
    /\ proc' = [proc EXCEPT ![r] = Entering(@, "Bcast", 1, "in_Bcast")]
    /\ UNCHANGED chan

(* comm.Allreduce(data, result, op=MPI.SUM) *)
EnterAllreduce(r) ==
    /\ r \in Ranks
    /\ MpiFrame
    /\ proc[r].pc = "in_Bcast"
    /\ CanLeave(r)
    /\ proc' = [proc EXCEPT ![r] = Entering(@, "Allreduce", 1, "in_Allreduce")]
    /\ UNCHANGED chan

(* is_correct = abs(actual_sum - expected_sum) < 1e-10, a floating-point
   comparison of the rank's own sums, and then
   comm.allreduce(1 if is_correct else 0, op=MPI.MIN) *)
EnterAgree(r) ==
    /\ r \in Ranks
    /\ MpiFrame
    /\ proc[r].pc = "in_Allreduce"
    /\ CanLeave(r)
    /\ \E c \in BOOLEAN :
           proc' = [proc EXCEPT
                       ![r] = Entering([@ EXCEPT !.is_correct = c],
                                       "allreduce", Flag(c), "in_agree")]
    /\ UNCHANGED chan

LocalFlag(r) == Flag(proc[r].is_correct)

(* all_correct, the value comm.allreduce(..., op=MPI.MIN) returns to rank r *)
AgreedFlag(r) == ReducedMin(r)

(* "if all_correct != 1: return False", else the next data size, and after
   the last one "if size >= 2" the point-to-point part, else return True *)
LeaveAgree(r) ==
    /\ r \in Ranks
    /\ MpiFrame
    /\ proc[r].pc = "in_agree"
    /\ CanLeave(r)
    /\ proc' = [proc EXCEPT ![r] =
                   IF AgreedFlag(r) # 1
                   THEN [@ EXCEPT !.ret = "False", !.pc = "returned"]
                   ELSE IF @.i < NumDataSizes
                   THEN [@ EXCEPT !.i = @ + 1, !.pc = "Bcast"]
                   ELSE IF size >= 2
                   THEN [@ EXCEPT !.i = 1, !.round_num = 0, !.pc = P2PStart(r)]
                   ELSE [@ EXCEPT !.ret = "True", !.pc = "returned"]]
    /\ UNCHANGED chan

(* rank 0: comm.Send(send_data, dest=1, tag=round_num) *)
P2PSend(r) ==
    /\ r \in Ranks
    /\ MpiFrame
    /\ r = 0
    /\ proc[r].pc = "Send"
    /\ DoSend(r, 1, proc[r].round_num, "in_Send")

P2PSendReturn(r) ==
    /\ r \in Ranks
    /\ MpiFrame
    /\ r = 0
    /\ proc[r].pc = "in_Send"
    /\ SendReturns(r, 1, proc[r].round_num)
    /\ proc' = [proc EXCEPT ![r].pc = "Recv"]
    /\ UNCHANGED chan

(* rank 0: comm.Recv(recv_data, source=1, tag=round_num), then
   "if not np.allclose(send_data, recv_data): return total_time / num_rounds,
   False", else the next round; after the last round "return ..., True".
   The return of benchmark_send_recv leads to the allreduce of
   run_scaling_tests. *)
P2PRecv(r) ==
    /\ r \in Ranks
    /\ MpiFrame
    /\ r = 0
    /\ proc[r].pc = "Recv"
    /\ InFlight(1, r, proc[r].round_num)
    /\ chan' = Take(1, r, proc[r].round_num)
    /\ \E intact \in BOOLEAN :
           proc' = [proc EXCEPT ![r] =
                       IF ~intact
                       THEN Entering([@ EXCEPT !.recvs = @ + 1, !.is_correct = FALSE],
                                     "allreduce", 0, "in_agree_p2p")
                       ELSE IF @.round_num + 1 < num_rounds
                       THEN [@ EXCEPT !.recvs = @ + 1, !.round_num = @ + 1, !.pc = "Send"]
                       ELSE Entering([@ EXCEPT !.recvs = @ + 1, !.round_num = @ + 1,
                                               !.is_correct = TRUE],
                                     "allreduce", 1, "in_agree_p2p")]

(* rank 1: comm.Recv(recv_data, source=0, tag=round_num) *)
EchoRecv(r) ==
    /\ r \in Ranks
    /\ MpiFrame
    /\ r = 1
    /\ proc[r].pc = "echo_Recv"
    /\ InFlight(0, r, proc[r].round_num)
    /\ chan' = Take(0, r, proc[r].round_num)
    /\ proc' = [proc EXCEPT ![r].recvs = @ + 1, ![r].pc = "echo_Send"]

(* rank 1: comm.Send(recv_data, dest=0, tag=round_num) *)
EchoSend(r) ==
    /\ r \in Ranks
    /\ MpiFrame
    /\ r = 1
    /\ proc[r].pc = "echo_Send"
    /\ DoSend(r, 0, proc[r].round_num, "in_echo_Send")

(* rank 1: the send returns; next round, and after the last round
   "return total_time / num_rounds, True" *)
EchoSendReturn(r) ==
    /\ r \in Ranks
    /\ MpiFrame
    /\ r = 1
    /\ proc[r].pc = "in_echo_Send"
    /\ SendReturns(r, 0, proc[r].round_num)
    /\ proc' = [proc EXCEPT ![r] =
                   IF @.round_num + 1 < num_rounds
                   THEN [@ EXCEPT !.round_num = @ + 1, !.pc = "echo_Recv"]
                   ELSE Entering([@ EXCEPT !.round_num = @ + 1, !.is_correct = TRUE],
                                 "allreduce", 1, "in_agree_p2p")]
    /\ UNCHANGED chan

(* ranks 2 and up: the ten rounds do nothing, "return ..., True" *)
P2PIdle(r) ==
    /\ r \in Ranks
    /\ MpiFrame
    /\ r >= 2
    /\ proc[r].pc = "round"
    /\ proc' = [proc EXCEPT ![r] =
                   Entering([@ EXCEPT !.round_num = num_rounds, !.is_correct = TRUE],
                            "allreduce", 1, "in_agree_p2p")]
    /\ UNCHANGED chan

(* "if all_correct != 1: return False", else the next message size, and
   after the last one "return True" *)
LeaveAgreeP2P(r) ==
    /\ r \in Ranks
    /\ MpiFrame
    /\ proc[r].pc = "in_agree_p2p"
    /\ CanLeave(r)
    /\ proc' = [proc EXCEPT ![r] =
                   IF AgreedFlag(r) # 1
                   THEN [@ EXCEPT !.ret = "False", !.pc = "returned"]
                   ELSE IF @.i < NumMessageSizes
                   THEN [@ EXCEPT !.i = @ + 1, !.round_num = 0, !.pc = P2PStart(r)]
                   ELSE [@ EXCEPT !.ret = "True", !.pc = "returned"]]
    /\ UNCHANGED chan

ScalingStep(r) ==
    \/ EnterBcast(r)
    \/ EnterAllreduce(r)
    \/ EnterAgree(r)
    \/ LeaveAgree(r)
    \/ P2PSend(r)
    \/ P2PSendReturn(r)
    \/ P2PRecv(r)
    \/ EchoRecv(r)
    \/ EchoSend(r)
    \/ EchoSendReturn(r)
    \/ P2PIdle(r)
    \/ LeaveAgreeP2P(r)

NextScaling == \E r \in RankIds : ScalingStep(r)

ScalingSpec == InitScaling /\ [][NextScaling]_vars

----------------------------------------------------------------------------
(* test_mpi.py: main, one process per rank *)

(* comm.send(data_to_send, dest=1, tag=11) *)
SendTag == 11

InitBasic ==
    /\ DepIdle
    /\ SuiteIdle
    /\ size \in 1..MaxRanks
    /\ buffered \in BOOLEAN
    /\ proc = [r \in Ranks |-> StartOfRank("start")]
    /\ chan = <<>>

AlwaysSend(n) == TRUE

(* rank 0: "if size > 1" *)
ShouldSend(n) == n > 1

(* the print of the rank, then the first comm.Barrier() *)
EnterBarrier1(r) ==
    /\ r \in Ranks
    /\ MpiFrame
    /\ proc[r].pc = "start"
    /\ proc' = [proc EXCEPT ![r] = Entering(@, "Barrier", 0, "in_Barrier1")]
    /\ UNCHANGED chan

(* "if rank == 0: ... if size > 1: ..." / "elif rank == 1: ..." *)
LeaveBarrier1(r) ==
    /\ r \in Ranks
    /\ MpiFrame
    /\ proc[r].pc = "in_Barrier1"
    /\ CanLeave(r)
    /\ proc' = [proc EXCEPT ![r].pc =
                   IF r = 0 THEN (IF ShouldSend(size) THEN "send" ELSE "Barrier2")
                   ELSE IF r = 1 THEN "recv"
                   ELSE "Barrier2"]
    /\ UNCHANGED chan

(* rank 0: comm.send(data_to_send, dest=1, tag=11) *)
BasicSend(r) ==
    /\ r \in Ranks
    /\ MpiFrame
    /\ r = 0
    /\ proc[r].pc = "send"
    /\ DoSend(r, 1, SendTag, "in_send")

BasicSendReturn(r) ==
    /\ r \in Ranks
    /\ MpiFrame
    /\ r = 0
    /\ proc[r].pc = "in_send"
    /\ SendReturns(r, 1, SendTag)
    /\ proc' = [proc EXCEPT ![r].pc = "Barrier2"]
    /\ UNCHANGED chan

(* rank 1: data_received = comm.recv(source=0, tag=11) *)
BasicRecv(r) ==
    /\ r \in Ranks
    /\ MpiFrame
    /\ r = 1
    /\ proc[r].pc = "recv"
    /\ InFlight(0, r, SendTag)
    /\ chan' = Take(0, r, SendTag)
    /\ proc' = [proc EXCEPT ![r].recvs = @ + 1, ![r].pc = "Barrier2"]

(* the second comm.Barrier() *)
EnterBarrier2(r) ==
    /\ r \in Ranks
    /\ MpiFrame
    /\ proc[r].pc = "Barrier2"
    /\ proc' = [proc EXCEPT ![r] = Entering(@, "Barrier", 0, "in_Barrier2")]
    /\ UNCHANGED chan

(* local_data = rank * rank; gathered_data = comm.gather(local_data, root=0) *)
EnterGather(r) ==
    /\ r \in Ranks
    /\ MpiFrame
    /\ proc[r].pc = "in_Barrier2"
    /\ CanLeave(r)
    /\ proc' = [proc EXCEPT ![r] = Entering(@, "gather", r * r, "in_gather")]
    /\ UNCHANGED chan

(* "return 0" *)
LeaveGather(r) ==
    /\ r \in Ranks
    /\ MpiFrame
    /\ proc[r].pc = "in_gather"
    /\ CanLeave(r)
    /\ proc' = [proc EXCEPT ![r].ret = "0", ![r].pc = "done"]
    /\ UNCHANGED chan

BasicStep(r) ==
    \/ EnterBarrier1(r)
    \/ LeaveBarrier1(r)
    \/ BasicSend(r)
    \/ BasicSendReturn(r)
    \/ BasicRecv(r)
    \/ EnterBarrier2(r)
    \/ EnterGather(r)
    \/ LeaveGather(r)

NextBasic == \E r \in RankIds : BasicStep(r)

BasicSpec == InitBasic /\ [][NextBasic]_vars

(* every rank is a running process: a rank that can take a step takes it *)
LiveBasicSpec == BasicSpec /\ \A r \in RankIds : WF_vars(BasicStep(r))

----------------------------------------------------------------------------
(* test_multi_node.py: main and the five tests.  A test is a function of
   what its commands and the environment answer; results are "True",
   "False", or "raise" for an exception that leaves the test. *)

(* Bound of the model: how many nodes sinfo or scontrol list. *)
MaxNodes == 2

(* total = len(tests) *)
total == 5

(* the tests list, in order *)
tests == <<"SLURM Environment", "Node Discovery", "Shared Filesystem",
           "Network Connectivity", "Resource Allocation">>

required_vars ==
    {"SLURM_JOB_ID", "SLURM_NODELIST", "SLURM_NNODES", "SLURM_NTASKS", "SLURM_PROCID"}

(* missing: the required variables that are not set *)
test_slurm_environment(missing) == IF missing # {} THEN "False" ELSE "True"

(* ok: sinfo succeeded; n: nodes listed; unreachable: nodes whose ping failed *)
test_node_discovery(ok, n, unreachable) ==
    IF ~ok THEN "False"
    ELSE IF unreachable > 0
         THEN (IF unreachable < n THEN "True" ELSE "False")
         ELSE "True"

(* created: the file could be written; listed: ls succeeded; same: cat
   printed the content; removed: os.remove did not raise *)
test_shared_filesystem(created, listed, same, removed) ==
    IF ~created THEN "False"
    ELSE IF ~listed THEN "False"
    ELSE IF ~same THEN "False"
    ELSE IF ~removed THEN "raise"
    ELSE "True"

(* ok: scontrol succeeded; n: nodes allocated; reached: ssh successes *)
test_network_connectivity(ok, n, reached) ==
    IF ~ok THEN "False"
    ELSE IF n < 2 THEN "True"
    ELSE IF reached > 0 THEN "True"
    ELSE "False"

(* cpus: nproc succeeded; mem: free succeeded *)
test_resource_allocation(cpus, mem) ==
    IF ~cpus THEN "False" ELSE IF ~mem THEN "False" ELSE "True"

(* what test number t can end with, over the answers of its environment *)
Outcomes(t) ==
    IF t = 1 THEN {test_slurm_environment(m) : m \in SUBSET required_vars}
    ELSE IF t = 2
    THEN UNION {{test_node_discovery(ok, n, u) : u \in 0..n} :
                    <<ok, n>> \in BOOLEAN \X (0..MaxNodes)}
    ELSE IF t = 3
    THEN {test_shared_filesystem(c[1], c[2], c[3], c[4]) :
              c \in BOOLEAN \X BOOLEAN \X BOOLEAN \X BOOLEAN}
    ELSE IF t = 4
    THEN UNION {{test_network_connectivity(ok, n, k) : k \in 0..n} :
                    <<ok, n>> \in BOOLEAN \X (0..MaxNodes)}
    ELSE {test_resource_allocation(c[1], c[2]) : c \in BOOLEAN \X BOOLEAN}

InitSuite ==
    /\ DepIdle
    /\ MpiIdle
    /\ test_idx = 1
    /\ passed = 0
    /\ ran = <<>>
    /\ suite_exit = -1

StopOnError(t, outcome) == IF outcome = "raise" THEN total + 1 ELSE t + 1

(* the for loop goes on with the next test after "if test_func()", after
   its else branch and after "except Exception" alike *)
AfterTest(t, outcome) == t + 1

(* one iteration of "for test_name, test_func in tests" *)
RunTest ==
    /\ suite_exit = -1
    /\ test_idx <= total
    /\ \E outcome \in Outcomes(test_idx) :
        /\ ran' = Append(ran, [name |-> tests[test_idx], result |-> outcome])
        /\ passed' = IF outcome = "True" THEN passed + 1 ELSE passed
        /\ test_idx' = AfterTest(test_idx, outcome)
    /\ UNCHANGED <<depVars, mpiVars, suite_exit>>

(* "if passed == total: return 0", else return 1 *)
Summary ==
    /\ suite_exit = -1
    /\ test_idx > total
    /\ suite_exit' = IF passed = total THEN 0 ELSE 1
    /\ UNCHANGED <<depVars, mpiVars, test_idx, passed, ran>>

NextSuite ==
    \/ RunTest
    \/ Summary

SuiteSpec == InitSuite /\ [][NextSuite]_vars

----------------------------------------------------------------------------
(* Vocabulary of the properties *)

CallsOf(j) == {k \in 1..Len(sbatchCalls) : sbatchCalls[k].job = j}

SubmitCalled(j) == CallsOf(j) # {}

Accepted(j) == \E k \in CallsOf(j) : sbatchCalls[k].accepted

Rejected(j) == \E k \in CallsOf(j) : ~sbatchCalls[k].accepted

(* the id the scheduler itself gave job j, None if it created no such job *)
SchedulerId(j) ==
    IF Accepted(j)
    THEN sbatchCalls[CHOOSE k \in CallsOf(j) : sbatchCalls[k].accepted].id
    ELSE None

MarkerJob(m) == CHOOSE j \in Jobs : Marker(j) = m

(* template j with every dependency marker replaced by the scheduler's id of
   that dependency *)
ExpectedBody(j) ==
    [k \in 1..Len(Template(j)) |->
        IF Template(j)[k] \in Markers
        THEN SchedulerId(MarkerJob(Template(j)[k]))
        ELSE Template(j)[k]]

SubmissionOver == pc # "submit"

----------------------------------------------------------------------------
(* C1, as stated: a job is handed to sbatch only after every job it depends
   on has been observed Succeeded. *)
C1_SubmitOnlyAfterDepsSucceeded ==
    \A j \in Jobs :
        SubmitCalled(j) => \A d \in Deps(j) : lastTerminal[d] = "Succeeded"

(* C1, amended: a job is handed to sbatch only after sbatch has accepted
   every job it depends on and the id of that job has been parsed; the
   wait for the dependency's success is left to the scheduler
   (--dependency=afterok). *)
C1_SubmitOnlyAfterDepsAccepted ==
    \A k \in 1..Len(sbatchCalls) :
        \A d \in Deps(sbatchCalls[k].job) :
            /\ \E m \in 1..(k - 1) :
                   sbatchCalls[m].job = d /\ sbatchCalls[m].accepted
            /\ job_id[d] # None

C1_Witness ==
    /\ Len(sbatchCalls) = 3
    /\ sbatchCalls[3].job = 3
    /\ lastTerminal[2] = "none"

(* C2: a refused sbatch is printed as a failure of that job, no later job
   is ever submitted or gets an id, polling is never entered and the run
   ends with exit code 1. *)
C2_FailFastChainAbort ==
    \A j \in Jobs :
        Rejected(j) =>
            /\ <<"Failed to submit Job", j>> \in log
            /\ job_id[j] = None
            /\ \A k \in Jobs : k > j => ~SubmitCalled(k) /\ job_id[k] = None
            /\ pc \in {"main_check", "exit"}
            /\ loop_exit = "none" /\ completed_jobs = <<>> /\ failed_jobs = <<>>
            /\ pc = "exit" =>
                   /\ exit_code = 1
                   /\ <<"Failed to submit all dependent jobs", 0>> \in log

C2_Witness ==
    /\ Rejected(2)
    /\ Accepted(1)
    /\ pc = "exit"

(* C3, as stated: submit calls follow the dependency order, the jobs
   submitted are exactly those whose dependencies were all accepted, and
   with no refusal these are all three jobs. *)
C3_SubmitsExactlyTheSatisfiedJobs ==
    /\ \A k \in 1..Len(sbatchCalls) :
           \A d \in Deps(sbatchCalls[k].job) :
               \E m \in 1..(k - 1) : sbatchCalls[m].job = d
    /\ SubmissionOver =>
           {j \in Jobs : SubmitCalled(j)} =
               {j \in Jobs : \A d \in Deps(j) : Accepted(d)}
    /\ (SubmissionOver /\ \A j \in Jobs : ~Rejected(j)) =>
           \A j \in Jobs : SubmitCalled(j)

(* C4: every body handed to sbatch is its template with each dependency
   marker replaced by the id the scheduler gave that dependency, no marker
   is left in it, and a script is not rendered while the id of its
   dependency is unknown. *)
C4_BodiesCarryTheDependencyId ==
    /\ \A k \in 1..Len(sbatchCalls) :
           /\ sbatchCalls[k].body = ExpectedBody(sbatchCalls[k].job)
           /\ \A n \in 1..Len(sbatchCalls[k].body) :
                  sbatchCalls[k].body[n] \notin Markers
           /\ file[sbatchCalls[k].job] = sbatchCalls[k].body
    /\ \A j \in Jobs : \A d \in Deps(j) :
           job_id[d] = None => script[j] = Template(j)

C4_Witness ==
    /\ Len(sbatchCalls) = 3
    /\ sbatchCalls[3].accepted
    /\ sbatchCalls[3].body[3] = sbatchCalls[2].id
    /\ sbatchCalls[2].body[3] = sbatchCalls[1].id

----------------------------------------------------------------------------
Range(q) == {q[k] : k \in 1..Len(q)}

Polling == pc \in {"loop_check", "squeue", "sacct", "tick_end"}

(* job j was classified terminal in the pass that is under way *)
TerminalThisTick(j) == job_id[j] \in Range(completed_jobs) \cup Range(failed_jobs)

AllTerminalThisTick == \A j \in Jobs : TerminalThisTick(j)

C5_ExitIsJustified ==
    /\ pc = "tick_end" => (all_completed <=> AllTerminalThisTick)
    /\ (pc = "return" /\ loop_exit = "break") => AllTerminalThisTick
    /\ (pc = "return" /\ loop_exit = "deadline") => elapsed >= max_wait_time
    /\ pc = "return" => loop_exit \in {"break", "deadline"}

C5_LoopStep ==
    /\ (pc = "tick_end" /\ AllTerminalThisTick) => (pc' = "return" /\ loop_exit' = "break")
    /\ (pc = "tick_end" /\ ~AllTerminalThisTick) =>
           (pc' = "loop_check" /\ elapsed' >= elapsed + SleepSecs)
    /\ (pc = "loop_check" /\ elapsed >= max_wait_time) =>
           (pc' = "return" /\ loop_exit' = "deadline")
    /\ (pc = "loop_check" /\ elapsed < max_wait_time) => pc' = "squeue"

(* C5: the polling loop always ends; it is left at the end of the first
   pass in which every job was classified terminal, otherwise at the first
   clock reading at or past max_wait_time, and in no other way. *)
C5_PollingTerminates ==
    /\ []C5_ExitIsJustified
    /\ [][C5_LoopStep]_vars
    /\ (Polling ~> pc = "return")

C5_Witness ==
    /\ pc = "return"
    /\ loop_exit = "deadline"
    /\ ~AllTerminalThisTick
    /\ elapsed > max_wait_time

----------------------------------------------------------------------------
WaitOver == pc \in {"return", "verify", "exit"} /\ loop_exit # "none"

(* the per-job status the returned lists stand for *)
FinalStatus(j) ==
    IF job_id[j] \in Range(completed_jobs) THEN "Succeeded"
    ELSE IF job_id[j] \in Range(failed_jobs) THEN "Failed"
    ELSE IF loop_exit = "deadline" THEN "TimedOut"
    ELSE "none"

(* C6, as stated: when the deadline ends the loop with a job still not
   terminal, that job ends TimedOut, the run fails, and every job that was
   observed Succeeded before is Succeeded in the result. *)
C6_DeadlineKeepsSucceededJobs ==
    (WaitOver /\ loop_exit = "deadline") =>
        /\ \A j \in Jobs : lastTerminal[j] = "Succeeded" => FinalStatus(j) = "Succeeded"
        /\ \A j \in Jobs : lastTerminal[j] = "none" => FinalStatus(j) = "TimedOut"
        /\ pc = "exit" => exit_code = 1

(* C7, as stated: a terminal state once recorded for a job is not undone by
   a later answer of the scheduler; the result carries the last terminal
   state recorded for every job. *)
C7_TerminalStateIsKept ==
    WaitOver =>
        \A j \in Jobs : lastTerminal[j] # "none" => FinalStatus(j) = lastTerminal[j]

(* C8: with the fake adapter (A and B queued for one pass, C for two, then
   COMPLETED) the loop is left by break, before the deadline, and the
   result lists all three jobs as completed and none as failed. *)
C8_FakeChainAllSucceeded ==
    adapter = "fake" =>
        /\ elapsed < max_wait_time
        /\ loop_exit # "deadline"
        /\ WaitOver =>
               /\ loop_exit = "break"
               /\ completed_jobs = <<job_id[1], job_id[2], job_id[3]>>
               /\ failed_jobs = <<>>
               /\ \A j \in Jobs : FinalStatus(j) = "Succeeded"
        /\ pc \in {"exit", "crashed"} => loop_exit = "break"

C8_Witness ==
    /\ adapter = "fake"
    /\ pc = "return"
    /\ elapsed = 2 * SleepSecs
    /\ Len(completed_jobs) = 3

(* the state in the first accounting line, "none" without a usable answer *)
AccountingState(ok, out) == IF ok /\ out # <<>> THEN out[1][1] ELSE "none"

C9_Step ==
    /\ Len(completed_jobs') > Len(completed_jobs) =>
           /\ pc = "sacct" /\ output = <<>>
           /\ AccountingState(success', output') = "COMPLETED"
           /\ completed_jobs' = Append(completed_jobs, job_id[idx])
    /\ Len(failed_jobs') > Len(failed_jobs) =>
           /\ pc = "sacct" /\ output = <<>>
           /\ AccountingState(success', output') \in {"FAILED", "CANCELLED"}
           /\ failed_jobs' = Append(failed_jobs, job_id[idx])
    /\ (pc = "squeue" /\ output' # <<>>) =>
           /\ job_id[idx] \notin Range(completed_jobs') \cup Range(failed_jobs')
           /\ lastTerminal' = lastTerminal
           /\ ~all_completed'

(* C9: a job enters the completed list only on an accounting answer
   COMPLETED, the failed list only on FAILED or CANCELLED, and never in a
   pass in which squeue still lists it. *)
C9_TerminalOnlyWhenReported == [][C9_Step]_vars

C9_Witness ==
    /\ pc = "squeue" /\ idx = 3
    /\ output # <<>> /\ output[1][1] = "CANCELLED"
    /\ Len(completed_jobs) = 1 /\ Len(failed_jobs) = 1

C10_Step ==
    /\ (pc = "squeue" /\ output' = <<>>) =>
           /\ pc' = "sacct" /\ idx' = idx
           /\ UNCHANGED <<completed_jobs, failed_jobs, lastTerminal, all_completed>>
    /\ pc = "sacct" =>
           LET acct == AccountingState(success', output') IN
           /\ acct \in {"FAILED", "CANCELLED"} <=>
                  failed_jobs' = Append(failed_jobs, job_id[idx])
           /\ acct = "COMPLETED" <=>
                  completed_jobs' = Append(completed_jobs, job_id[idx])
           /\ acct \notin {"FAILED", "CANCELLED", "COMPLETED"} =>
                  /\ UNCHANGED <<completed_jobs, failed_jobs, lastTerminal>>
                  /\ ~all_completed'
                  /\ pc' \in {"squeue", "tick_end"}

(* C10: a job that squeue no longer lists is not classified on that answer:
   sacct is asked next, the job is failed exactly on FAILED or CANCELLED,
   completed exactly on COMPLETED, and otherwise stays open and keeps the
   loop going. *)
C10_UnknownNeedsAccounting == [][C10_Step]_vars

C10_Witness ==
    /\ pc = "squeue" /\ idx = 2
    /\ output = <<>> /\ success
    /\ ~TerminalThisTick(1)
    /\ lastTerminal[1] = "none"
    /\ ~all_completed

----------------------------------------------------------------------------
(* The verifier seen from outside *)

(* verify_results has opened at least the first path *)
FilesRead == \E k \in Artifacts : fs[k].state # "unread"

(* artifact k is the file job k writes *)
Producer(k) == k

(* C11: the verifier runs, and reads any artifact file, only after every
   job, the producer of the file included, was seen to have left the queue
   with a COMPLETED accounting state in the pass that ended the polling. *)
C11_VerifyOnlyAfterTerminal ==
    (pc = "verify" \/ FilesRead \/ verdicts # <<>>) =>
        /\ loop_exit = "break"
        /\ \A k \in Artifacts :
              /\ FinalStatus(Producer(k)) = "Succeeded"
              /\ lastTerminal[Producer(k)] = "Succeeded"

C11_Witness ==
    /\ pc = "exit"
    /\ exit_code = 0
    /\ \A k \in Artifacts : fs[k].state = "ok"
    /\ \A j \in Jobs : lastTerminal[j] = "Succeeded"

(* some artifact is missing, cannot be read, or lacks its substring *)
ArtifactProblem(f) ==
    \E k \in Artifacts :
        \/ f[k].state \in {"missing", "unreadable"}
        \/ ~IsInfix(Needle(k), f[k].content)

(* C12, as stated: a missing or unreadable artifact, or one without its
   substring, makes verify_results report failure and main end the run as
   failed through its own "verification failed" exit, and the job lists
   wait_for_jobs returned stay as they were. *)
C12_BadArtifactFailsRunOnly ==
    (FilesRead /\ ArtifactProblem(fs)) =>
        /\ verdicts = <<"failed">>
        /\ pc = "exit"
        /\ exit_code = 1
        /\ <<"Job results verification failed", 0>> \in log
        /\ \A j \in Jobs : FinalStatus(j) = "Succeeded" /\ lastTerminal[j] = "Succeeded"

(* What the printed lines say about artifact k: failed when a "missing" or
   "content incorrect" line names it, passed when its content test ran (all
   three files were listed) and no such line names it or an earlier file. *)
ArtifactOutcome(k) ==
    IF <<"missing", k>> \in log \/ <<"content incorrect", k>> \in log THEN "failed"
    ELSE IF /\ \A m \in Artifacts : <<"listed", m>> \in log
            /\ \A m \in 1..k : <<"content incorrect", m>> \notin log
         THEN "passed"
         ELSE "not evaluated"

DataFileGood == fs[1].state = "ok" /\ IsInfix(<<"test_data_123">>, fs[1].content)

ProcessedFileWrong ==
    fs[2].state = "ok" /\ ~IsInfix(<<"processed_", "test_data_123">>, fs[2].content)

(* C13, as stated: when the data file contains "test_data_123" and the
   processed file does not contain "processed_test_data_123", the processed
   file is reported failed, the data file passed, and the verification as a
   whole failed. *)
C13_LineageIndependent ==
    (FilesRead /\ DataFileGood /\ ProcessedFileWrong) =>
        /\ ArtifactOutcome(2) = "failed"
        /\ ArtifactOutcome(1) = "passed"
        /\ verdicts # <<"passed">>
        /\ exit_code = 1

(* C13, amended: the same, when the final file exists and can be read too. *)
C13_LineageIndependentWhenAllListed ==
    (FilesRead /\ DataFileGood /\ ProcessedFileWrong /\ fs[3].state = "ok") =>
        /\ ArtifactOutcome(2) = "failed"
        /\ ArtifactOutcome(1) = "passed"
        /\ verdicts = <<"failed">>
        /\ exit_code = 1
        /\ pc = "exit"

C13_Witness ==
    /\ FilesRead
    /\ fs[1] = [state |-> "ok", content |-> <<"test_data_123">>]
    /\ fs[2] = [state |-> "ok", content |-> <<"unrelated">>]
    /\ fs[3] = [state |-> "ok", content |-> <<"Final result: ", "analysis_complete">>]
    /\ ArtifactOutcome(1) = "passed"
    /\ ArtifactOutcome(2) = "failed"

(* C14: a call of verify_results leaves the files and the job lists as they
   were, and every call after the first ends as the call before it did, with
   the same printed lines and the same exit status. *)
C14_VerifierIdempotentReadOnly ==
    [][ /\ fs' = fs
        /\ UNCHANGED <<completed_jobs, failed_jobs, lastTerminal, job_id>>
        /\ verdicts # <<>> =>
              /\ verdicts' = Append(verdicts, verdicts[Len(verdicts)])
              /\ log' = log
              /\ exit_code' = exit_code ]_vars

C14_Witness ==
    /\ verdicts = <<"failed", "failed">>
    /\ fs[1] = [state |-> "ok", content |-> <<"test_data_123">>]
    /\ fs[2] = [state |-> "ok", content |-> <<"unrelated">>]
    /\ \A j \in Jobs : lastTerminal[j] = "Succeeded"

----------------------------------------------------------------------------
(* Submission, seen from the scheduler's side *)

(* what sbatch printed for the accepted call of job j *)
StdoutOf(j) == sbatchCalls[CHOOSE k \in CallsOf(j) : sbatchCalls[k].accepted].stdout

(* sbatch exited 0 for job j but printed no token *)
Unparsable(j) == Accepted(j) /\ Flatten(StdoutOf(j)) = <<>>

(* C15, as stated: after an accepted sbatch the job's id is the last word of
   the output; an accepted sbatch whose output holds no word is a submission
   the run reports as failed (the program goes on to its own failure exit
   with the job's failure printed), and no job is submitted whose
   dependency has no id or whose script still holds a marker. *)
C15_UnparsableOutputIsReported ==
    \A j \in Jobs :
        /\ (Accepted(j) /\ ~Unparsable(j)) =>
               job_id[j] = Flatten(StdoutOf(j))[Len(Flatten(StdoutOf(j)))]
        /\ Unparsable(j) =>
               /\ job_id[j] = None
               /\ pc # "crashed"
               /\ <<"Failed to submit Job", j>> \in log
        /\ \A k \in CallsOf(j) :
               /\ \A d \in Deps(j) : job_id[d] # None /\ job_id[d] = SchedulerId(d)
               /\ \A w \in 1..Len(sbatchCalls[k].body) :
                      sbatchCalls[k].body[w] \notin Markers

(* C16: sbatch is run at most once for each job in a run: a refused job is
   not tried again, an accepted job is not submitted again. *)
C16_SubmittedAtMostOnce ==
    /\ \A j \in Jobs : Cardinality(CallsOf(j)) <= 1
    /\ Len(sbatchCalls) <= 3
    /\ \A k \in 1..Len(sbatchCalls) : sbatchCalls[k].job = k

C16_Witness ==
    /\ pc = "exit"
    /\ Accepted(1)
    /\ Rejected(2)
    /\ Len(sbatchCalls) = 2

(* the submit call of job j gave the program an id: sbatch exited 0 and
   printed at least one word *)
SubmitSucceeded(j) == Accepted(j) /\ ~Unparsable(j)

(* C17: a job has an id exactly when its submit call has succeeded, the id is
   the one the scheduler gave it, a job that was never submitted has none,
   and an id once assigned never changes. *)
C17_IdIffSubmitted ==
    /\ [](\A j \in Jobs :
             /\ job_id[j] # None <=> SubmitSucceeded(j)
             /\ job_id[j] # None => job_id[j] = SchedulerId(j)
             /\ ~SubmitCalled(j) => job_id[j] = None)
    /\ [][\A j \in Jobs : job_id[j] # None => job_id'[j] = job_id[j]]_vars

C17_Witness ==
    /\ pc = "exit"
    /\ exit_code = 1
    /\ job_id[1] = SchedulerId(1) /\ job_id[1] # None
    /\ Rejected(2) /\ job_id[2] = None
    /\ ~SubmitCalled(3) /\ job_id[3] = None

----------------------------------------------------------------------------
(* Cancellation *)

(* job j is in the scheduler and the program has not seen it terminal *)
Unresolved(j) == Accepted(j) /\ lastTerminal[j] = "none"

(* C19, as stated: after an external stop request, cancel has been called on
   the id of every job that is submitted and not terminal, and the result
   marks those jobs Cancelled. *)
C19_CancelReachesEveryOpenJob ==
    pc = "interrupted" =>
        \A j \in Jobs :
            Unresolved(j) =>
                /\ SchedulerId(j) \in ScancelCalls
                /\ FinalStatus(j) = "Cancelled"

----------------------------------------------------------------------------
(* The poll set *)

(* C20, as stated: a pass queries only jobs that have no terminal state
   recorded yet (a step from "squeue" is the squeue call for job idx), and a
   recorded terminal state is not recorded a second time. *)
C20_TerminalJobsLeaveThePollSet ==
    [][ /\ pc = "squeue" => lastTerminal[idx] = "none"
        /\ (pc = "sacct" /\ lastTerminal[idx] # "none") =>
               UNCHANGED <<completed_jobs, failed_jobs>> ]_vars

----------------------------------------------------------------------------
(* Which artifacts are evaluated *)

Ended == pc \in {"exit", "crashed"}

(* the sequence 1, 2, .., n *)
UpTo(n) == [m \in 1..n |-> m]

(* C21, as stated: once the run has ended after polling, the artifact of
   every job that ended Succeeded has been opened, also when another job
   ended Failed or TimedOut, and the artifact of no other job has. *)
C21_SucceededJobsAreVerified ==
    (Ended /\ WaitOver) =>
        \A k \in Artifacts :
            FinalStatus(Producer(k)) = "Succeeded" <=> k \in Range(opened)

(* C21, amended: artifacts are opened only in runs in which all three jobs
   ended Succeeded (when a job ended Failed or TimedOut none is, the
   Succeeded jobs' included); then the files are opened in declaration
   order, in the existence loop up to the first problem and, when all three
   were read, again in the content tests up to the first failure. *)
C21_VerifyInOrderWhenAllSucceeded ==
    /\ opened # <<>> => \A j \in Jobs : FinalStatus(j) = "Succeeded"
    /\ (Ended /\ WaitOver /\ \E j \in Jobs : FinalStatus(j) # "Succeeded") =>
           opened = <<>> /\ verdicts = <<>>
    /\ (Ended /\ WaitOver /\ \A j \in Jobs : FinalStatus(j) = "Succeeded") =>
           /\ verdicts # <<>>
           /\ fs[1].state # "missing" => opened # <<>>
    /\ \E a \in 0..3 : \E b \in 0..3 :
           /\ opened = UpTo(a) \o UpTo(b)
           /\ b > 0 => a = 3
    /\ verdicts = <<"passed">> => opened = <<1, 2, 3, 1, 2, 3>>

C21_Witness ==
    /\ pc = "exit"
    /\ opened = <<1, 2, 3, 1, 2>>
    /\ verdicts = <<"failed">>
    /\ \A j \in Jobs : FinalStatus(j) = "Succeeded"

----------------------------------------------------------------------------
(* The exit status *)

AllSubmitted == \A j \in Jobs : Accepted(j) /\ job_id[j] # None

AllSucceededAtLastTick ==
    /\ WaitOver
    /\ failed_jobs = <<>>
    /\ \A j \in Jobs : FinalStatus(j) = "Succeeded"

AllArtifactsGood == FilesRead /\ ~ArtifactProblem(fs)

(* C22: a run that has ended has exit status 0 or 1, and 0 exactly when all
   three jobs were submitted, the last pass of the polling reported all
   three COMPLETED and none FAILED or CANCELLED, and every artifact exists
   and holds its substring; a refused submission, a job that ended Failed,
   Cancelled or TimedOut, or a failed verification give 1. *)
C22_ExitZeroIffAllGood ==
    Ended =>
        /\ exit_code \in {0, 1}
        /\ exit_code = 0 <=> (AllSubmitted /\ AllSucceededAtLastTick /\ AllArtifactsGood)
        /\ (\E j \in Jobs : Rejected(j)) => exit_code = 1
        /\ (WaitOver /\ \E j \in Jobs : FinalStatus(j) \in {"Failed", "TimedOut"}) =>
               exit_code = 1
        /\ (verdicts # <<>> /\ verdicts # <<"passed">>) => exit_code = 1

C22_Witness ==
    /\ pc = "exit"
    /\ exit_code = 0
    /\ AllSubmitted
    /\ AllSucceededAtLastTick
    /\ AllArtifactsGood
    /\ opened = <<1, 2, 3, 1, 2, 3>>

----------------------------------------------------------------------------
(* The MPI scaling test *)

(* rank r is back in run_scaling_tests after benchmark_send_recv *)
LeftPingPong(r) == proc[r].pc \in {"in_agree_p2p", "returned"}

(* rank 1 waits in a Recv for a round that rank 0, which has left the
   benchmark of the same message size, will not send *)
EchoRankStranded ==
    /\ proc[1].pc = "echo_Recv"
    /\ LeftPingPong(0)
    /\ proc[0].i = proc[1].i
    /\ ~InFlight(0, 1, proc[1].round_num)

(* C23, as stated: with two or more ranks, rank 1 is never left in a Recv
   that rank 0 does not serve, and when both ranks are back from the
   benchmark each has received what the other has sent; also after rank 0
   saw a mismatch. *)
C23_PingPongStaysPaired ==
    size >= 2 =>
        /\ ~EchoRankStranded
        /\ (LeftPingPong(0) /\ LeftPingPong(1)) =>
               /\ proc[0].sends = proc[1].recvs
               /\ proc[1].sends = proc[0].recvs
               /\ chan = <<>>

(* rank r is inside a collective call *)
InCollective(r) == proc[r].pc \in {"in_Bcast", "in_Allreduce", "in_agree", "in_agree_p2p"}

Returned(r) == proc[r].ret # "none"

(* C25: the ranks decide alike after every benchmark.  A rank returns False
   only from an allreduce(MIN) every rank has entered and to which some rank
   contributed 0; every rank that has left that allreduce has returned False
   too, at the same data size; no rank enters a collective that a returned
   rank never enters, and all ranks call the same collectives in the same
   order. *)
C25_RanksDecideAlike ==
    \A r \in Ranks : \A q \in Ranks :
        /\ \A n \in 1..Len(proc[r].colls) :
               n <= Len(proc[q].colls) => proc[q].colls[n].kind = proc[r].colls[n].kind
        /\ Returned(r) =>
               /\ Len(proc[q].colls) = Len(proc[r].colls)
               /\ ~InCollective(q) =>
                      /\ proc[q].ret = proc[r].ret
                      /\ proc[q].i = proc[r].i
        /\ proc[r].ret = "False" =>
               \E w \in Ranks : proc[w].colls[Len(proc[r].colls)].val = 0

C25_Witness ==
    /\ size = 3
    /\ \A r \in Ranks : proc[r].ret = "False" /\ proc[r].i = 2
    /\ proc[0].is_correct /\ ~proc[1].is_correct
    /\ Len(proc[0].colls) = 6

----------------------------------------------------------------------------
(* The basic MPI test *)

AllDone == \A r \in Ranks : proc[r].pc = "done"

(* what the ranks have sent and received so far fits the program: only
   rank 0 sends, once and only to an existing rank 1, only rank 1 receives,
   once *)
OneSendOneRecv ==
    /\ \A r \in Ranks : proc[r].sends = (IF r = 0 THEN proc[0].sends ELSE 0)
    /\ \A r \in Ranks : proc[r].recvs = (IF r = 1 THEN proc[1].recvs ELSE 0)
    /\ proc[0].sends <= 1
    /\ proc[0].sends = 1 => size > 1
    /\ size > 1 => proc[1].recvs <= proc[0].sends
    /\ size = 1 => chan = <<>>

(* C24: for every communicator size from 1 on, every rank passes the two
   barriers and the gather and returns; rank 0 sends once, only when there
   is a rank 1, which receives that message once; with one rank nothing is
   sent or received. *)
C24_BasicTestCompletes ==
    /\ []OneSendOneRecv
    /\ [](AllDone =>
             /\ chan = <<>>
             /\ size > 1 => (proc[0].sends = 1 /\ proc[1].recvs = 1)
             /\ \A r \in Ranks :
                    /\ Len(proc[r].colls) = 3
                    /\ proc[r].colls[1].kind = "Barrier"
                    /\ proc[r].colls[2].kind = "Barrier"
                    /\ proc[r].colls[3].kind = "gather")
    /\ <>AllDone

C24_Witness ==
    /\ size = 3
    /\ ~buffered
    /\ AllDone
    /\ proc[0].sends = 1
    /\ proc[1].recvs = 1
    /\ chan = <<>>

----------------------------------------------------------------------------
(* The multi-node suite *)

(* C26: the suite calls its five tests once each in the listed order
   whatever the earlier tests ended with, counts a test as passed exactly
   when it returned True, and exits 0 exactly when all five returned True,
   else 1. *)
C26_AllTestsRunOnce ==
    /\ Len(ran) = test_idx - 1
    /\ Len(ran) <= total
    /\ \A k \in 1..Len(ran) : ran[k].name = tests[k]
    /\ passed = Cardinality({k \in 1..Len(ran) : ran[k].result = "True"})
    /\ suite_exit # -1 =>
           /\ Len(ran) = total
           /\ suite_exit \in {0, 1}
           /\ suite_exit = 0 <=> \A k \in 1..total : ran[k].result = "True"

C26_Witness ==
    /\ suite_exit = 1
    /\ Len(ran) = 5
    /\ ran[1].result = "False"
    /\ ran[3].result = "raise"
    /\ ran[5].result = "True"
    /\ passed = 3

====
